---- MODULE Spec2Model ----
(***************************************************************************)
(* Model of the ImGuiPluginDSP audio plugin.  The repository holds two     *)
(* versions of the class:                                                  *)
(*   "filter" : src/unnamed/part_000  (three parameters, filters the left  *)
(*              input, resets the filter registers)                        *)
(*   "tone"   : src/src/PluginDSP.cpp (two parameters, filters a generated *)
(*              440 Hz tone)                                               *)
(* Both are modelled; the variable variant says which one an instance is.  *)
(*                                                                         *)
(* Numbers.  Gain in dB, frequency note and sample values are integers.    *)
(* Resonance is held in tenths (0.5 is 5, 0.2 is 2, the range [0,1] is     *)
(* 0..10).  A linear gain is held in units of 1/GainOne.  The coefficient  *)
(* arrays C[n_cm_coeffs] and the register arrays R[n_filter_registers] of  *)
(* the filter library are each held as one value per SIMD lane.            *)
(* CParamSmooth and the sst-filters library are not part of the sources;   *)
(* they are modelled from their contracts.                                 *)
(***************************************************************************)
EXTENDS Integers, Sequences, FiniteSets, TLC

\* ------------------------------------------------------------------ bounds
\* largest frame count the host passes to run
MaxFrames == 2
\* length of one lane's delay buffer (MAX_FB_COMB + FIRipol_N in the code)
DelayLen == 1

\* ------------------------------------------------------- program constants
\* the four SIMD lanes of QuadFilterUnitState
NLanes == 4
\* float fGainLinear = 1.0f: the linear gain 1.0, in the model's unit
GainOne == 4
Lanes == 0 .. (NLanes - 1)

Variants == {"filter", "tone"}

\* enum Parameters: kParamCount
kParamCount(v) == IF v = "filter" THEN 3 ELSE 2

\* initParameter: ranges.min, ranges.max, ranges.def of each parameter
RangeMin(index) == CASE index = 0 -> -90 [] index = 1 -> -60 [] OTHER -> 0
RangeMax(index) == CASE index = 0 -> 30 [] index = 1 -> 64 [] OTHER -> 10
RangeDef(index) == CASE index = 0 -> 0 [] index = 1 -> -12 [] OTHER -> 5

\* the resonance the tone version passes to MakeCoeffs (0.2), and the
\* frequency note its activate passes (-12.0)
ToneResonance == 2
ToneActivateNote == -12

\* ------------------------------------------------------------ input domains
SampleRates == {44100, 48000}
BufferSizes == {64}
\* sample values; the filter's registers wrap around at RegMod
Samples == {0, 1}
RegMod == Cardinality(Samples)
GainInputs == {-100, -90, 0, 30, 40}
FreqInputs == {-61, 5}
ResInputs == {3, 11}
OtherInputs == {7}
Indexes == 0 .. 3
InputValues(index) ==
    CASE index = 0 -> {-100, 0}
      [] index = 1 -> FreqInputs
      [] index = 2 -> ResInputs
      [] OTHER -> OtherInputs

VARIABLES
    variant,      \* which version of the class this instance is
    host,         \* Plugin base: [sampleRate, bufferSize, active]
    fSampleRate, fGainDB, fGainLinear, fFreqNote, fResonance,
    fSmoothGain,  \* CParamSmooth: [fs, z, target]
    coeffMaker,   \* FilterCoefficientMaker: [C, sampleRate, blockSize]
    filterState,  \* QuadFilterUnitState: [C, R, WP, active, DB]
    delayBuffer,  \* float delayBuffer[4][...]; a cell is <<>> until written
    time,         \* uint64_t time of the tone version
    call,         \* the run call in progress and the host's buffers
    obs           \* observations: last callback, return value, arguments

vars == <<variant, host, fSampleRate, fGainDB, fGainLinear, fFreqNote,
          fResonance, fSmoothGain, coeffMaker, filterState, delayBuffer,
          time, call, obs>>

plugin == <<fSampleRate, fGainDB, fGainLinear, fFreqNote, fResonance,
            fSmoothGain, coeffMaker, filterState, delayBuffer, time>>

\* ------------------------------------------------------------------ macros
MIN(a, b) == IF a < b THEN a ELSE b
MAX(a, b) == IF a > b THEN a ELSE b

CLAMP(v, min, max) == MIN(max, MAX(min, v))

\* powf(10.0f, g * 0.05f) for g a multiple of 10 dB, in units of 1/GainOne.
\* powf is positive everywhere, so the result never rounds down to 0.
RECURSIVE powf10(_)
powf10(g) ==
    IF g = 0 THEN GainOne
    ELSE IF g > 0 THEN (powf10(g - 10) * 316) \div 100
    ELSE MAX(1, (powf10(g + 10) * 100) \div 316)

DB_CO_Inclusive(g) == IF g >= -90 THEN powf10(g) ELSE 0

DB_CO(g) == IF g > -90 THEN powf10(g) ELSE 0

\* ------------------------------------------------------------ CParamSmooth
SmoothFlush(s) == [s EXCEPT !.z = s.target]
SmoothSetSampleRate(s, rate) == [s EXCEPT !.fs = rate]
\* one-pole smoothing with coefficient 1/2: new = target + (old - target)/2
SmoothProcess(s, in) == [s EXCEPT !.z = in + ((s.z - in) \div 2), !.target = in]

\* ------------------------------------------------- FilterCoefficientMaker
ZeroCoef == <<0, 0, 0>>
Coef(freq, res, rate) == <<freq, res, rate>>
CoeffReset(cm) == [cm EXCEPT !.C = ZeroCoef]
SetSampleRateAndBlockSize(cm, rate, block) ==
    [cm EXCEPT !.sampleRate = rate, !.blockSize = block]
MakeCoeffs(cm, freq, res) == [cm EXCEPT !.C = Coef(freq, res, cm.sampleRate)]
UpdateState(cm, st) == [st EXCEPT !.C = [l \in Lanes |-> cm.C]]

\* ----------------------------------------------------------- filter unit
\* FUnit(&filterState, in): one step of the filter on a 4-lane vector x.
\* g is the value an uninitialised delay cell happens to hold.
DelayRead(st, db, l, g) ==
    IF st.DB[l] = <<>> THEN 0
    ELSE LET c == db[st.DB[l][1]][st.WP[l]]
         IN IF c = <<>> THEN g ELSE c[1]

FUnitOut(st, db, x, g) ==
    [l \in Lanes |-> (x[l] + st.R[l] + DelayRead(st, db, l, g)) % RegMod]

FUnitState(st, db, x, g) ==
    [st EXCEPT !.R = FUnitOut(st, db, x, g),
               !.WP = [l \in Lanes |->
                          IF st.DB[l] = <<>> THEN st.WP[l]
                          ELSE (st.WP[l] + 1) % DelayLen]]

FUnitDelay(st, db, x) ==
    [b \in Lanes |-> [k \in 0 .. (DelayLen - 1) |->
        IF \E l \in Lanes : st.DB[l] = <<b>> /\ st.WP[l] = k
        THEN LET l == CHOOSE m \in Lanes : st.DB[m] = <<b>> /\ st.WP[m] = k
             IN <<x[l] % RegMod>>
        ELSE db[b][k]]]

\* 0.25 * sin(2 pi 440 time / rate), one period in four steps
SinTable == <<0, 1, 0, -1>>
Sin(t) == SinTable[(t % Len(SinTable)) + 1]

\* -------------------------------------------------------------- initial state
NoCall == [pc |-> "idle", frames |-> 0, i |-> 0, inpL |-> <<>>,
           layout |-> "apart",
           outL |-> <<>>, outR |-> <<>>, filt |-> <<>>, gain |-> <<>>,
           loads |-> {}]

NoObs == [lastOp |-> "new", index |-> <<>>, ret |-> <<>>, dbArg |-> <<>>,
          mkArgs |-> <<>>, acts |-> 0]

Init ==
    /\ variant \in Variants
    /\ host \in [sampleRate : SampleRates, bufferSize : BufferSizes,
                 active : {FALSE}]
    /\ fSampleRate = host.sampleRate
    /\ fGainDB = 0
    /\ fGainLinear = GainOne
    /\ fFreqNote = 0
    /\ fResonance = 5
    /\ fSmoothGain = [fs |-> fSampleRate, z |-> 0, target |-> 0]
    /\ coeffMaker = [C |-> ZeroCoef, sampleRate |-> 0, blockSize |-> 0]
    /\ filterState = [C |-> [l \in Lanes |-> ZeroCoef],
                      R |-> [l \in Lanes |-> 0],
                      WP |-> [l \in Lanes |-> 0],
                      active |-> [l \in Lanes |-> FALSE],
                      DB |-> [l \in Lanes |-> <<>>]]
    /\ delayBuffer = [b \in Lanes |-> [k \in 0 .. (DelayLen - 1) |-> <<>>]]
    \* uint64_t time has no initialiser; the filter version has no such member
    /\ time \in IF variant = "tone" THEN 0 .. (Len(SinTable) - 1) ELSE {0}
    /\ call = NoCall
    /\ obs = NoObs

\* ------------------------------------------------------------ observations
\* obs describes the last callback: its name, its index argument, what it
\* returned and what it passed to DB_CO and MakeCoeffs; acts counts (up to 2)
\* the activate calls since the last callback other than activate,
\* deactivate and getParameterValue
Observe(op, n) == [NoObs EXCEPT !.lastOp = op, !.acts = n]
ObserveParam(op, n, index) == [Observe(op, n) EXCEPT !.index = <<index>>]

\* --------------------------------------------------------- getParameterValue
\* a switch without its default case: the value falls through to the gain
getParameterValue_NoDefault(index) ==
    CASE index = 1 -> fFreqNote
      [] index = 2 /\ variant = "filter" -> fResonance
      [] OTHER -> fGainDB

getParameterValue(index) ==
    CASE index = 0 -> fGainDB
      [] index = 1 -> fFreqNote
      [] index = 2 /\ variant = "filter" -> fResonance
      [] OTHER -> 0

GetParameterValue(index) ==
    /\ obs' = [ObserveParam("get", obs.acts, index) EXCEPT
                  !.ret = <<getParameterValue(index)>>]
    /\ UNCHANGED <<variant, host, plugin, call>>

\* --------------------------------------------------------- setParameterValue
\* case 0 of both versions
SetGain(value) ==
    /\ fGainDB' = value
    /\ LET g == CLAMP(value, -90, 30)
       IN /\ fGainLinear' = DB_CO(g)
          /\ obs' = [ObserveParam("set", 0, 0) EXCEPT !.dbArg = <<g>>]
    /\ UNCHANGED <<fFreqNote, fResonance, coeffMaker, filterState>>

\* case 1: the tone version also recomputes and pushes the coefficients
SetFreq(value) ==
    /\ fFreqNote' = value
    /\ IF variant = "tone"
       THEN /\ coeffMaker' = MakeCoeffs(coeffMaker, value, ToneResonance)
            /\ filterState' = UpdateState(coeffMaker', filterState)
            /\ obs' = [ObserveParam("set", 0, 1) EXCEPT
                          !.mkArgs = <<value, ToneResonance>>]
       ELSE /\ obs' = ObserveParam("set", 0, 1)
            /\ UNCHANGED <<coeffMaker, filterState>>
    /\ UNCHANGED <<fGainDB, fGainLinear, fResonance>>

\* case 2 exists in the filter version only
SetRes(value) ==
    /\ fResonance' = value
    /\ obs' = ObserveParam("set", 0, 2)
    /\ UNCHANGED <<fGainDB, fGainLinear, fFreqNote, coeffMaker, filterState>>

SetNothing(index) ==
    /\ obs' = ObserveParam("set", 0, index)
    /\ UNCHANGED <<fGainDB, fGainLinear, fFreqNote, fResonance, coeffMaker,
                   filterState>>

SetParameterValue(index, value) ==
    /\ CASE index = 0 -> SetGain(value)
         [] index = 1 -> SetFreq(value)
         [] index = 2 /\ variant = "filter" -> SetRes(value)
         [] OTHER -> SetNothing(index)
    /\ UNCHANGED <<variant, host, fSampleRate, fSmoothGain, delayBuffer, time,
                   call>>

\* ------------------------------------------------------ resetFilterRegisters
\* the active mask flipped instead of set
resetFilterRegisters_Flip(st) ==
    [st EXCEPT !.R = [l \in Lanes |-> 0],
               !.C = [l \in Lanes |-> ZeroCoef],
               !.WP = [l \in Lanes |-> 0],
               !.active = [l \in Lanes |-> ~st.active[l]],
               !.DB = [l \in Lanes |-> <<l>>]]

resetFilterRegisters(st) ==
    [st EXCEPT !.R = [l \in Lanes |-> 0],
               !.C = [l \in Lanes |-> ZeroCoef],
               !.WP = [l \in Lanes |-> 0],
               !.active = [l \in Lanes |-> TRUE],
               !.DB = [l \in Lanes |-> <<l>>]]

\* ------------------------------------------------------------------ activate
ActivateFilter ==
    /\ fSmoothGain' = SmoothFlush(fSmoothGain)
    /\ LET cm0 == CoeffReset(coeffMaker)
           st0 == resetFilterRegisters(filterState)
           cm1 == SetSampleRateAndBlockSize(cm0, host.sampleRate, host.bufferSize)
           cm2 == MakeCoeffs(cm1, fFreqNote, fResonance)
       IN /\ coeffMaker' = cm2
          /\ filterState' = UpdateState(cm2, st0)
    /\ obs' = [Observe("activate", MIN(obs.acts + 1, 2)) EXCEPT
                  !.mkArgs = <<fFreqNote, fResonance>>]

ActivateTone ==
    /\ fSmoothGain' = SmoothFlush(fSmoothGain)
    /\ LET cm1 == SetSampleRateAndBlockSize(coeffMaker, host.sampleRate,
                                            host.bufferSize)
           cm2 == MakeCoeffs(cm1, ToneActivateNote, ToneResonance)
       IN /\ coeffMaker' = cm2
          /\ filterState' = UpdateState(cm2, filterState)
    /\ obs' = [Observe("activate", MIN(obs.acts + 1, 2)) EXCEPT
                  !.mkArgs = <<ToneActivateNote, ToneResonance>>]

\* the host activates a plugin that is not active, and never during run
Activate ==
    /\ call.pc # "loop"
    /\ ~host.active
    /\ host' = [host EXCEPT !.active = TRUE]
    /\ IF variant = "filter" THEN ActivateFilter ELSE ActivateTone
    /\ call' = NoCall
    /\ UNCHANGED <<variant, fSampleRate, fGainDB, fGainLinear, fFreqNote,
                   fResonance, delayBuffer, time>>

\* deactivate is not overridden: only the host's flag changes
Deactivate ==
    /\ call.pc # "loop"
    /\ host.active
    /\ host' = [host EXCEPT !.active = FALSE]
    /\ call' = NoCall
    /\ obs' = Observe("deactivate", obs.acts)
    /\ UNCHANGED <<variant, plugin>>

\* --------------------------------------------------------- sampleRateChanged
\* the host stores the new rate (getSampleRate) and then calls back; only
\* while the plugin is deactivated
SampleRateChanged(newSampleRate) ==
    /\ call.pc # "loop"
    /\ ~host.active
    /\ host' = [host EXCEPT !.sampleRate = newSampleRate]
    /\ fSampleRate' = newSampleRate
    /\ fSmoothGain' = SmoothSetSampleRate(fSmoothGain, newSampleRate)
    /\ IF variant = "filter"
       THEN /\ coeffMaker' = SetSampleRateAndBlockSize(CoeffReset(coeffMaker),
                                 host'.sampleRate, host'.bufferSize)
            /\ filterState' = resetFilterRegisters(filterState)
       ELSE UNCHANGED <<coeffMaker, filterState>>
    /\ call' = NoCall
    /\ obs' = Observe("sampleRateChanged", 0)
    /\ UNCHANGED <<variant, fGainDB, fGainLinear, fFreqNote, fResonance,
                   delayBuffer, time>>

\* ----------------------------------------------------------------------- run
\* the host's buffers hold frames samples; the cells from frames on stand for
\* the memory that follows a buffer.  layout says where the host has put the
\* right output buffer: "adjacent" (directly behind the left one) or "apart".
\* call.loads collects the cells of inpL a run has read
BufCells(frames) == 0 .. (frames + NLanes - 2)

\* the cells of inpL that _mm_loadu_ps(&inpL[i]) reads
LoadCells(i) == i .. (i + NLanes - 1)

\* _mm_loadu_ps(&inpL[i]): four consecutive floats
LoadVector(buf, i) == [l \in Lanes |-> buf[i + l]]

\* _mm_storeu_ps(&outL[i], post): four consecutive floats
StoreVector(buf, i, post) ==
    [k \in DOMAIN buf |-> IF k \in i .. (i + NLanes - 1) THEN <<post[k - i]>>
                          ELSE buf[k]]

\* outL[i] = v; outR[i] = v
StoreScalar(buf, i, v) == [buf EXCEPT ![i] = <<v>>]

\* What the vector store at outL[i] does to the right buffer.  The store
\* runs past the frames cells of outL when i + 3 >= frames; where the host
\* has laid the right buffer out directly behind the left one, cell
\* frames + j of outL is cell j of outR.
StoreOverrun(right, layout, frames, i, post) ==
    IF layout = "adjacent"
    THEN [j \in DOMAIN right |->
            IF frames + j \in i .. (i + NLanes - 1) THEN <<post[frames + j - i]>>
            ELSE right[j]]
    ELSE right

\* entry of run: the filter version recomputes the coefficients
RunBegin(frames, inp, layout) ==
    /\ host.active
    /\ call.pc # "loop"
    /\ IF variant = "filter"
       THEN LET cm0 == [coeffMaker EXCEPT !.C = filterState.C[0]]
                cm1 == MakeCoeffs(cm0, fFreqNote, fResonance)
            IN /\ coeffMaker' = cm1
               /\ filterState' = UpdateState(cm1, filterState)
               /\ obs' = [Observe("run", 0) EXCEPT
                             !.mkArgs = <<fFreqNote, fResonance>>]
       ELSE /\ obs' = Observe("run", 0)
            /\ UNCHANGED <<coeffMaker, filterState>>
    /\ call' = [pc |-> "loop", frames |-> frames, i |-> 0, inpL |-> inp,
                layout |-> layout,
                outL |-> [k \in BufCells(frames) |-> <<>>],
                outR |-> [k \in BufCells(frames) |-> <<>>],
                filt |-> <<>>, gain |-> <<>>, loads |-> {}]
    /\ UNCHANGED <<variant, host, fSampleRate, fGainDB, fGainLinear, fFreqNote,
                   fResonance, fSmoothGain, delayBuffer, time>>

\* one iteration of the loop of the filter version
FrameFilter(g) ==
    LET i == call.i
        x == LoadVector(call.inpL, i)
        filt == FUnitOut(filterState, delayBuffer, x, g)
        sm == SmoothProcess(fSmoothGain, fGainLinear)
        gain == sm.z
        post == [l \in Lanes |-> filt[l] * gain]
    IN /\ filterState' = FUnitState(filterState, delayBuffer, x, g)
       /\ delayBuffer' = FUnitDelay(filterState, delayBuffer, x)
       /\ fSmoothGain' = sm
       /\ call' = [call EXCEPT !.i = i + 1,
                      !.outL = StoreVector(call.outL, i, post),
                      !.outR = StoreScalar(
                                  StoreOverrun(call.outR, call.layout,
                                               call.frames, i, post),
                                  i, call.inpL[i] * gain),
                      !.filt = Append(call.filt, filt[0]),
                      !.gain = Append(call.gain, gain),
                      !.loads = call.loads \cup LoadCells(i)]
       /\ UNCHANGED time

\* one iteration of the loop of the tone version
FrameTone(g) ==
    LET i == call.i
        t == (time + 1) % Len(SinTable)
        s == Sin(t)
        sm == SmoothProcess(fSmoothGain, fGainLinear)
        gain == sm.z
        x == [l \in Lanes |-> s]
        yArr == FUnitOut(filterState, delayBuffer, x, g)
    IN /\ time' = t
       /\ filterState' = FUnitState(filterState, delayBuffer, x, g)
       /\ delayBuffer' = FUnitDelay(filterState, delayBuffer, x)
       /\ fSmoothGain' = sm
       /\ call' = [call EXCEPT !.i = i + 1,
                      !.outL = StoreScalar(call.outL, i, yArr[0] * gain),
                      !.outR = StoreScalar(call.outR, i, s * gain),
                      !.filt = Append(call.filt, yArr[0]),
                      !.gain = Append(call.gain, gain)]

RunFrame(g) ==
    /\ call.pc = "loop"
    /\ call.i < call.frames
    /\ IF variant = "filter" THEN FrameFilter(g) ELSE FrameTone(g)
    /\ obs' = Observe("frame", 0)
    /\ UNCHANGED <<variant, host, fSampleRate, fGainDB, fGainLinear, fFreqNote,
                   fResonance, coeffMaker>>

RunReturn ==
    /\ call.pc = "loop"
    /\ call.i = call.frames
    /\ call' = [call EXCEPT !.pc = "done"]
    /\ obs' = Observe("return", 0)
    /\ UNCHANGED <<variant, host, plugin>>

\* ------------------------------------------------------------ specification
\* One step of the host: Idx and Vals are the indexes and values it passes to
\* the parameter calls, Frames and Bufs the frame counts and input buffers
\* it passes to run, Layouts the buffer layouts, Rates the sample rates it changes to, Garb the values uninitialised memory may hold.
Step(Idx, Vals, Rates, Frames, Bufs, Layouts, Garb) ==
    \/ \E index \in Idx : GetParameterValue(index)
    \/ \E index \in Idx : \E value \in Vals[index] :
          SetParameterValue(index, value)
    \/ Activate
    \/ Deactivate
    \/ \E newSampleRate \in Rates : SampleRateChanged(newSampleRate)
    \/ \E frames \in Frames : \E inp \in Bufs[frames] : \E layout \in Layouts :
          RunBegin(frames, inp, layout)
    \/ \E g \in Garb : RunFrame(g)
    \/ RunReturn

\* buffers whose cells all hold the same sample
FlatBufs(frames) == {[k \in BufCells(frames) |-> v] : v \in {1}}
\* every buffer, followed by memory that holds one arbitrary value
AllBufs(frames) ==
    {[k \in BufCells(frames) |-> IF k < frames THEN b[k] ELSE p] :
        b \in [0 .. (frames - 1) -> Samples], p \in Samples}

\* Spec: every parameter call, short runs on flat input
Next ==
    Step(Indexes, [index \in Indexes |-> InputValues(index)], SampleRates,
         0 .. 1, [frames \in 0 .. 1 |-> FlatBufs(frames)], {"apart"}, {0})

Spec == Init /\ [][Next]_vars

\* SpecGain: the parameter calls alone, over the whole gain range
GainValues(index) == IF index = 0 THEN GainInputs ELSE InputValues(index)

NextGain ==
    \/ \E index \in Indexes : GetParameterValue(index)
    \/ \E index \in Indexes : \E value \in GainValues(index) :
          SetParameterValue(index, value)

SpecGain == Init /\ [][NextGain]_vars

\* SpecAudio: runs of every length on every input, gain changes only
AudioValues(index) == {-90}

NextAudio ==
    Step({0}, [index \in {0} |-> AudioValues(index)], {48000},
         0 .. MaxFrames, [frames \in 0 .. MaxFrames |-> AllBufs(frames)],
         {"apart", "adjacent"}, Samples)

InitAudio == Init /\ host.sampleRate = 48000

SpecAudio == InitAudio /\ [][NextAudio]_vars

\* ===================================================================== claims
InRange(index, v) == RangeMin(index) <= v /\ v <= RangeMax(index)
DelayCells == {<<b, k>> : b \in Lanes, k \in 0 .. (DelayLen - 1)}
\* the resonance in force: a parameter of the filter version, fixed in the
\* tone version
CurrentResonance == IF variant = "filter" THEN fResonance ELSE ToneResonance
runtime == <<fSmoothGain, coeffMaker, filterState, delayBuffer>>

\* C1: whatever values setParameterValue was given, the gain handed to the
\* dB-to-linear conversion lies in [-90,30], and the frequency note and the
\* resonance handed to the coefficient computation lie in [-60,64] and [0,1].
C1_ArgumentsClamped ==
    /\ obs.dbArg # <<>> => InRange(0, obs.dbArg[1])
    /\ obs.mkArgs # <<>> => InRange(1, obs.mkArgs[1]) /\ InRange(2, obs.mkArgs[2])

\* C2: when activate returns and when run has pushed its coefficients (before
\* the first sample), the coefficients in every lane of the runtime state are
\* those of the current frequency note and resonance.
C2_CoefficientsCurrent ==
    obs.lastOp \in {"activate", "run"} =>
        \A l \in Lanes :
            filterState.C[l] = Coef(fFreqNote, CurrentResonance, coeffMaker.sampleRate)

\* C3: after activate, all history registers are zero, all write pointers are
\* 0, all lanes are active, each lane points at its own delay buffer, the
\* coefficients are the recomputed ones, and no delay cell holds a non-zero
\* sample (a cell that was never written is not counted against the claim).
C3_ActivateZeroes ==
    obs.lastOp = "activate" =>
        /\ \A l \in Lanes :
              /\ filterState.R[l] = 0
              /\ filterState.WP[l] = 0
              /\ filterState.active[l]
              /\ filterState.DB[l] = <<l>>
              /\ filterState.C[l] # ZeroCoef
        /\ \A c \in DelayCells : delayBuffer[c[1]][c[2]] \in {<<>>, <<0>>}

\* C4: after sampleRateChanged, the coefficient and history registers are
\* zero, the write pointers are 0, the coefficient engine has the new sample
\* rate and the current block size, and no delay cell holds a sample of an
\* earlier run that a later run could read.
C4_SampleRateBoundary ==
    obs.lastOp = "sampleRateChanged" =>
        /\ \A l \in Lanes :
              /\ filterState.C[l] = ZeroCoef
              /\ filterState.R[l] = 0
              /\ filterState.WP[l] = 0
        /\ coeffMaker.sampleRate = host.sampleRate
        /\ coeffMaker.blockSize = host.bufferSize
        /\ \A c \in DelayCells : delayBuffer[c[1]][c[2]] \in {<<>>, <<0>>}

\* C5: getParameterValue with an index at or past the parameter count returns
\* 0; setParameterValue with such an index changes no parameter field, nor
\* the linear gain, the coefficient engine or the filter runtime state.
C5_OutOfRangeIndex ==
    /\ [](obs.lastOp = "get" /\ obs.index[1] >= kParamCount(variant)
            => obs.ret = <<0>>)
    /\ [][obs'.lastOp = "set" /\ obs'.index[1] >= kParamCount(variant)
            => UNCHANGED <<fGainDB, fGainLinear, fFreqNote, fResonance,
                           coeffMaker, filterState>>]_vars

C5_Witness ==
    /\ obs.lastOp = "get"
    /\ obs.index[1] >= kParamCount(variant)
    /\ fGainDB # 0 /\ fFreqNote # 0

\* C6: the cached linear gain is 0 when the gain is -90 dB or below, 1.0 when
\* it is 0 dB, and the gain of 30 dB when it is above 30 dB.
C6_GainFloor ==
    /\ fGainDB <= -90 => fGainLinear = 0
    /\ fGainDB = 0 => fGainLinear = GainOne
    /\ fGainDB > 30 => fGainLinear = powf10(30)

C6_Witness == obs.lastOp = "set" /\ obs.index = <<0>> /\ fGainDB = -90

\* C7: an activate that follows an activate, with nothing but deactivate and
\* getParameterValue in between, leaves the runtime state (smoother,
\* coefficient engine, filter state, delay buffers) as the first one left it.
C7_ActivateIdempotent ==
    [][obs.acts >= 1 /\ obs'.lastOp = "activate" => runtime' = runtime]_vars

C7_Witness ==
    /\ obs.lastOp = "activate"
    /\ obs.acts = 2
    /\ \E c \in DelayCells : delayBuffer[c[1]][c[2]] = <<1>>

\* C8: right after construction every parameter's value is the default of
\* its descriptor: gain 0, frequency note -12, resonance 0.5.
C8_DefaultsAtConstruction ==
    obs.lastOp = "new" =>
        \A index \in 0 .. (kParamCount(variant) - 1) :
            getParameterValue(index) = RangeDef(index)

\* C9: setParameterValue writes the cached parameter fields only: no call of
\* it changes the coefficient engine or the filter runtime state.
C9_SetWritesParametersOnly ==
    [][obs'.lastOp = "set" => UNCHANGED <<coeffMaker, filterState>>]_vars

\* C10: when run returns, the filter ran once per frame and, for
\* every i < frames, the left output holds lane 0 of the filter result of
\* step i times the i-th gain and the right output holds the left input
\* sample i times that gain.
C10_OutputsFromInput ==
    call.pc = "done" =>
        /\ Len(call.filt) = call.frames
        /\ \A i \in 0 .. (call.frames - 1) :
              /\ call.outL[i] = <<call.filt[i + 1] * call.gain[i + 1]>>
              /\ call.outR[i] = <<call.inpL[i] * call.gain[i + 1]>>

\* C11: run stays inside the host's buffers: every cell it has read from the
\* input buffer and every cell it has written to an output buffer has an
\* index in 0..frames-1.
C11_InsideBuffers ==
    /\ \A k \in call.loads : k < call.frames
    /\ \A k \in DOMAIN call.outL : k >= call.frames => call.outL[k] = <<>>
    /\ \A k \in DOMAIN call.outR : k >= call.frames => call.outR[k] = <<>>

====
